---- MODULE Spec2Model ----
(***************************************************************************)
(* Model of AudioAnalyzer (src/UMP.py, lines 48-105): a QThread whose      *)
(* run() loop pops fixed-size frames from a mutex-guarded sample buffer,   *)
(* and whose process_audio() slot appends decoded PCM chunks to it.        *)
(*                                                                         *)
(* Three threads of control are modelled:                                  *)
(*   worker     - the thread executing AudioAnalyzer.run (pc: wpc)         *)
(*   producer   - the caller of process_audio          (pc: ppc)           *)
(*   controller - the caller of start()/stop_analysis  (pc: cpc)           *)
(* Every action is one step of one thread; the steps are cut at the        *)
(* points where the source takes or releases the QMutex, reads the         *)
(* `running` flag, or blocks (wait, msleep).                               *)
(*                                                                         *)
(* Sample values: a float is kept as an exact fraction <<num, den>> in     *)
(* lowest terms (an int16 divided by 32768 is exactly representable in     *)
(* float32 and in the float64 buffer).                                     *)
(*                                                                         *)
(* Spectral values: the FFT and the logarithm are not computable over the  *)
(* integers, so a spectral value is a term [kind, val]: an exact number    *)
(* (kind "num") where the source's arithmetic yields one (an all-zero      *)
(* frame, the zero-filled histories), and otherwise the unevaluated        *)
(* expression over the frame it was computed from.                         *)
(***************************************************************************)
EXTENDS Integers, Sequences, FiniteSets, TLC

\* ---------------------------------------------------------------- bounds
\* self.fft_size (2048 in the source), scaled down
fft_size == 2
\* self.history_size (20 in the source), scaled down
history_size == 2
\* number of process_audio calls explored
MaxPushes == 3
\* number of exceptions explored inside run()
MaxErrors == 1

\* self.msleep(20): the loop sleeps one period; the clock ticks in periods of
\* 20 ms
SleepTicks == 1

\* len(self.audio_buffer): np.zeros(self.fft_size * 2)
Capacity == fft_size * 2
\* longest chunk offered: one more than the whole buffer
MaxChunk == Capacity + 1

VARIABLES
  running,       \* self.running
  audio_buffer,  \* self.audio_buffer, a sequence of Capacity floats
  buffer_pos,    \* self.buffer_pos
  current_pos,   \* self.current_pos
  mutex,         \* self.mutex: "free", or the thread that holds it
  wpc,           \* worker position in run(); "none" = no thread is in run()
  chunk,         \* run()'s local `chunk`
  ppc,           \* producer position in process_audio
  audio_data,    \* process_audio's local `audio_data` (<<>> outside a call)
  cpc,           \* controller position ("idle", or "wait" inside stop_analysis)
  published,     \* frames whose result was emitted on analysis_updated, in order
  accepted,      \* history: all samples written into the buffer, in order
  popped,        \* history: all samples popped as frames, in order
  nPushes,       \* history: number of process_audio calls made
  nextSample,    \* serial number of the next sample not yet accepted
  last_fit,      \* history: did the last completed process_audio write its chunk
  last_ret,      \* value returned by the last completed process_audio
  last_op,       \* last completed controller call: "none", "start", "stop",
                 \* or "start again" for a start() that found run() running
  nloops,        \* number of threads QThread has executing run()
  nErrors,       \* number of exceptions raised inside run()
  freq_history,  \* self.freq_history: history_size rows of fft_size // 2 values
  spec_history,  \* self.spec_history: history_size rows of fft_size // 2 values
  recorded,      \* history: number of times lines 78-80 have run to the end
  freq_writer,   \* history: per row of freq_history, the number of the frame
                 \* line 78 last stored there (0: never written)
  spec_writer,   \* history: the same for spec_history and line 79
  magnitude,     \* run()'s local `magnitude`
  power,         \* run()'s local `power`
  pending,       \* results emitted on analysis_updated and not yet delivered
  delivered,     \* history: results update_visualizer has received, in order
  spc,           \* subscriber position: "idle", or "busy" inside update_visualizer
  sleep_left,    \* ticks the worker still has to sleep in msleep
  since_flag     \* history: results emitted since stop_analysis lowered the flag

vars == <<running, audio_buffer, buffer_pos, current_pos, mutex, wpc, chunk,
          ppc, audio_data, cpc, published, accepted, popped, nPushes,
          nextSample, last_fit, last_ret, last_op, nloops, nErrors,
          freq_history, spec_history, recorded, freq_writer, spec_writer,
          magnitude, power, pending, delivered,
          spc, sleep_left, since_flag>>

bufvars == <<audio_buffer, buffer_pos>>
prodvars == <<ppc, audio_data, accepted, nPushes, nextSample, last_fit, last_ret>>
ctlvars == <<cpc, last_op, nloops>>
histvars == <<freq_history, spec_history, recorded, freq_writer, spec_writer>>
wlocals == <<magnitude, power>>
subvars == <<delivered, spc>>
workvars == <<wpc, chunk, current_pos, published, popped, nErrors, histvars,
              wlocals, pending, sleep_left>>

\* ------------------------------------------------------- pure functions
RECURSIVE Gcd(_, _)
Gcd(a, b) == IF b = 0 THEN a ELSE Gcd(b, a % b)

Abs(x) == IF x < 0 THEN -x ELSE x

\* exact quotient n / d (d > 0) as a fraction in lowest terms
Quot(n, d) ==
  LET g == Gcd(Abs(n), d) IN <<n \div g, d \div g>>

\* the float 0.0 that np.zeros fills arrays with
Zero == <<0, 1>>

\* np.zeros(n)
zeros(n) == [i \in 1..n |-> Zero]

\* two's-complement reading of an unsigned 16-bit value
Int16_unsigned(u) == u
Int16(u) == IF u >= 32768 THEN u - 65536 ELSE u

\* np.frombuffer(bytes, dtype=np.int16): little-endian pairs of bytes
frombuffer(bytes) ==
  [i \in 1..(Len(bytes) \div 2) |-> Int16(bytes[2 * i - 1] + 256 * bytes[2 * i])]

\* audio_data.astype(np.float32) / 32768.0
normalize(ints) == [i \in 1..Len(ints) |-> Quot(ints[i], 32768)]

\* the decoded chunk of process_audio, lines 93-94
decode(bytes) == normalize(frombuffer(bytes))

\* np.roll(a, -k): element i of the result is element i+k (cyclically) of a
roll_left_nowrap(a, k) == a
roll_left(a, k) ==
  [i \in 1..Len(a) |-> a[((i - 1 + k) % Len(a)) + 1]]

\* process_audio lines 97-100, run with the mutex held
process_audio_partial(buf, pos, data) ==
  LET n == IF Len(data) <= Len(buf) - pos THEN Len(data) ELSE Len(buf) - pos
  IN [audio_buffer |-> [i \in 1..Len(buf) |->
                          IF i > pos /\ i <= pos + n THEN data[i - pos] ELSE buf[i]],
      buffer_pos |-> pos + n,
      fit |-> Len(data) <= Len(buf) - pos]
process_audio_nocheck(buf, pos, data) ==
  [audio_buffer |-> [i \in 1..Len(buf) |->
                       IF i > pos /\ i <= pos + Len(data) THEN data[i - pos] ELSE buf[i]],
   buffer_pos |-> pos + Len(data),
   fit |-> Len(data) <= Len(buf) - pos]
process_audio_locked(buf, pos, data) ==
  LET available_space == Len(buf) - pos
  IN IF Len(data) <= available_space
       THEN [audio_buffer |-> [i \in 1..Len(buf) |->
                                 IF i > pos /\ i <= pos + Len(data)
                                   THEN data[i - pos] ELSE buf[i]],
             buffer_pos |-> pos + Len(data),
             fit |-> TRUE]
       ELSE [audio_buffer |-> buf, buffer_pos |-> pos, fit |-> FALSE]

\* run lines 68-71, run with the mutex held
pop_frame_keeppos(buf, pos) ==
  IF pos >= fft_size
    THEN [taken |-> TRUE,
          chunk |-> SubSeq(buf, 1, fft_size),
          audio_buffer |-> roll_left(buf, fft_size),
          buffer_pos |-> pos]
    ELSE [taken |-> FALSE, chunk |-> <<>>, audio_buffer |-> buf, buffer_pos |-> pos]
pop_frame_short(buf, pos) ==
  IF pos >= fft_size - 1
    THEN [taken |-> TRUE,
          chunk |-> SubSeq(buf, 1, fft_size),
          audio_buffer |-> roll_left(buf, fft_size),
          buffer_pos |-> pos - fft_size]
    ELSE [taken |-> FALSE, chunk |-> <<>>, audio_buffer |-> buf, buffer_pos |-> pos]
pop_frame(buf, pos) ==
  IF pos >= fft_size
    THEN [taken |-> TRUE,
          chunk |-> SubSeq(buf, 1, fft_size),
          audio_buffer |-> roll_left(buf, fft_size),
          buffer_pos |-> pos - fft_size]
    ELSE [taken |-> FALSE, chunk |-> <<>>, audio_buffer |-> buf, buffer_pos |-> pos]

\* --------------------------------------------------- spectral transform
\* number of bins kept in the histories: self.fft_size // 2
NBins == fft_size \div 2

\* an exact spectral number n / d
Num(n, d) == [kind |-> "num", val |-> <<n, d>>]

\* the 0.0 of np.zeros in freq_history and spec_history
SZero == Num(0, 1)

\* 20 * np.log10(0.0 + 1e-12): the value the epsilon floors the power at
Floor == Num(-240, 1)

\* a frame of zeros: chunk * window, its FFT and its magnitudes are all 0.0
silent(frame) == \A i \in 1..Len(frame) : frame[i] = Zero

\* line 73-75: np.abs(np.fft.rfft(chunk * self.window)) / self.fft_size,
\* fft_size // 2 + 1 bins
magnitude_of(frame) ==
  [b \in 1..(fft_size \div 2 + 1) |->
     IF silent(frame) THEN SZero ELSE [kind |-> "mag", val |-> <<frame, b>>]]

\* line 76: 20 * np.log10(magnitude + 1e-12), per bin
power_bin_noeps(m) ==
  IF m = SZero THEN [kind |-> "-inf", val |-> m] ELSE [kind |-> "dB", val |-> m]
power_bin(m) == IF m = SZero THEN Floor ELSE [kind |-> "dB", val |-> m]

power_of(mag) == [b \in 1..Len(mag) |-> power_bin(mag[b])]

\* the slice [:self.fft_size // 2] of lines 78-79
head(row) == SubSeq(row, 1, NBins)

\* np.mean over one column: exact when every entry is the same exact
\* number, otherwise the unevaluated mean of the column (sum / len)
mean_col_written(col) ==
  [kind |-> "mean", val |-> SelectSeq(col, LAMBDA x : x # SZero)]
mean_col(col) ==
  IF col[1].kind = "num" /\ \A i \in 1..Len(col) : col[i] = col[1]
    THEN col[1]
    ELSE [kind |-> "mean", val |-> col]

\* np.mean(history, axis=0)
mean_axis0(hist) ==
  [b \in 1..NBins |-> mean_col([k \in 1..Len(hist) |-> hist[k][b]])]

\* line 85: np.sqrt(np.mean(np.square(magnitude)))
rms_of(mag) ==
  IF \A b \in 1..Len(mag) : mag[b] = SZero
    THEN SZero ELSE [kind |-> "rms", val |-> mag]

\* line 86: np.max(magnitude)
peak_of(mag) ==
  IF \A b \in 1..Len(mag) : mag[b] = SZero
    THEN SZero ELSE [kind |-> "peak", val |-> mag]

\* lines 78-79: the history with row `row` stored at index pos
store_row(hist, pos, row) == [hist EXCEPT ![pos + 1] = head(row)]

\* line 80: the rotating index after one record
advance_stuck(pos) == pos
advance(pos) == (pos + 1) % history_size

\* lines 82-87: the result dict
result_of(fh, sh, mag) ==
  [spectrum |-> mean_axis0(fh),
   spectrogram |-> mean_axis0(sh),
   rms |-> rms_of(mag),
   peak |-> peak_of(mag)]

\* ------------------------------------------------------ producer inputs
\* the int16 value of the k-th sample offered: distinct, both signs
SampleOf(k) == IF k % 2 = 0 THEN -k ELSE k

\* little-endian bytes of an int16
BytesOf(v) ==
  LET u == IF v < 0 THEN v + 65536 ELSE v IN <<u % 256, u \div 256>>

\* QAudioBuffer.data() holding n samples, the first with serial number k
RawBuffer(k, n) ==
  [j \in 1..(2 * n) |-> BytesOf(SampleOf(k + ((j - 1) \div 2)))[((j - 1) % 2) + 1]]

\* QAudioBuffer.data() holding n samples of silence
SilentBuffer(n) == [j \in 1..(2 * n) |-> 0]

\* ----------------------------------------------------------------- Init
\* AudioAnalyzer.__init__; no thread has been started
Init ==
  /\ running = TRUE
  /\ audio_buffer = zeros(Capacity)
  /\ buffer_pos = 0
  /\ current_pos = 0
  /\ mutex = "free"
  /\ wpc = "none"
  /\ chunk = <<>>
  /\ ppc = "idle"
  /\ audio_data = <<>>
  /\ cpc = "idle"
  /\ published = <<>>
  /\ accepted = <<>>
  /\ popped = <<>>
  /\ nPushes = 0
  /\ nextSample = 1
  /\ last_fit = FALSE
  /\ last_ret = "none yet"
  /\ last_op = "none"
  /\ nloops = 0
  /\ nErrors = 0
  /\ freq_history = [k \in 1..history_size |-> [b \in 1..NBins |-> SZero]]
  /\ spec_history = [k \in 1..history_size |-> [b \in 1..NBins |-> SZero]]
  /\ recorded = 0
  /\ freq_writer = [k \in 1..history_size |-> 0]
  /\ spec_writer = [k \in 1..history_size |-> 0]
  /\ magnitude = <<>>
  /\ power = <<>>
  /\ pending = <<>>
  /\ delivered = <<>>
  /\ spc = "idle"
  /\ sleep_left = 0
  /\ since_flag = 0

\* ----------------------------------------------------------- controller
\* QThread.start(): begins run() in a new thread; does nothing if the
\* thread is already running
start_unguarded ==
  /\ cpc = "idle"
  /\ wpc' = "while"
  /\ nloops' = nloops + 1
  /\ last_op' = IF wpc = "none" THEN "start" ELSE "start again"
  /\ UNCHANGED <<running, bufvars, mutex, chunk, current_pos, published, popped,
                 nErrors, histvars, wlocals, pending, sleep_left, prodvars, cpc,
                 subvars, since_flag>>
start ==
  /\ cpc = "idle"
  /\ wpc' = IF wpc = "none" THEN "while" ELSE wpc
  /\ nloops' = IF wpc = "none" THEN nloops + 1 ELSE nloops
  /\ last_op' = IF wpc = "none" THEN "start" ELSE "start again"
  /\ UNCHANGED <<running, bufvars, mutex, chunk, current_pos, published, popped,
                 nErrors, histvars, wlocals, pending, sleep_left, prodvars, cpc,
                 subvars, since_flag>>

\* stop_analysis line 104: self.running = False
stop_analysis_noflag ==
  /\ cpc = "idle"
  /\ cpc' = "wait"
  /\ since_flag' = 0
  /\ UNCHANGED <<running, bufvars, mutex, workvars, prodvars, last_op, nloops,
                 subvars>>
stop_analysis_flag ==
  /\ cpc = "idle"
  /\ running' = FALSE
  /\ cpc' = "wait"
  /\ since_flag' = 0
  /\ UNCHANGED <<bufvars, mutex, workvars, prodvars, last_op, nloops, subvars>>

\* stop_analysis line 105: self.wait() returns once run() has returned
\* (at once if the thread was never started), then stop_analysis returns
stop_analysis_wait_started ==
  /\ cpc = "wait"
  /\ wpc = "none"
  /\ last_op \in {"start", "start again"}
  /\ cpc' = "idle"
  /\ last_op' = "stop"
  /\ since_flag' = 0
  /\ UNCHANGED <<running, bufvars, mutex, workvars, prodvars, nloops, subvars>>
stop_analysis_nojoin ==
  /\ cpc = "wait"
  /\ cpc' = "idle"
  /\ last_op' = "stop"
  /\ since_flag' = 0
  /\ UNCHANGED <<running, bufvars, mutex, workvars, prodvars, nloops, subvars>>
stop_analysis_wait ==
  /\ cpc = "wait"
  /\ wpc = "none"
  /\ cpc' = "idle"
  /\ last_op' = "stop"
  /\ since_flag' = 0
  /\ UNCHANGED <<running, bufvars, mutex, workvars, prodvars, nloops, subvars>>

\* ------------------------------------------------------------- producer
\* np.frombuffer accepts a buffer whose size is a multiple of the item size
frombuffer_ok(bytes) == Len(bytes) % 2 = 0

\* process_audio lines 93-94: decode the raw buffer
process_audio_call ==
  /\ ppc = "idle"
  /\ nPushes < MaxPushes
  /\ \E n \in 0..MaxChunk :
       /\ frombuffer_ok(RawBuffer(nextSample, n))
       /\ audio_data' = decode(RawBuffer(nextSample, n))
  /\ nPushes' = nPushes + 1
  /\ ppc' = "lock"
  /\ UNCHANGED <<running, bufvars, mutex, workvars, ctlvars, accepted,
                 nextSample, last_fit, last_ret, subvars, since_flag>>

\* process_audio lines 93-94 on a raw buffer of silence, one or two frames
\* long
process_audio_call_silent ==
  /\ ppc = "idle"
  /\ nPushes < MaxPushes
  /\ \E n \in {fft_size, Capacity} :
       /\ frombuffer_ok(SilentBuffer(n))
       /\ audio_data' = decode(SilentBuffer(n))
  /\ nPushes' = nPushes + 1
  /\ ppc' = "lock"
  /\ UNCHANGED <<running, bufvars, mutex, workvars, ctlvars, accepted,
                 nextSample, last_fit, last_ret, subvars, since_flag>>

\* process_audio line 93 on a raw buffer with an odd number of bytes:
\* np.frombuffer raises ValueError, which leaves process_audio before the
\* mutex is taken
process_audio_raise ==
  /\ ppc = "idle"
  /\ nPushes < MaxPushes
  /\ \E n \in 0..MaxChunk :
       ~frombuffer_ok(Append(RawBuffer(nextSample, n), 0))
  /\ nPushes' = nPushes + 1
  /\ last_ret' = "ValueError"
  /\ UNCHANGED <<running, bufvars, mutex, workvars, ctlvars, ppc, audio_data,
                 accepted, nextSample, last_fit, subvars, since_flag>>

\* process_audio line 96: self.mutex.lock()
process_audio_lock ==
  /\ ppc = "lock"
  /\ mutex = "free"
  /\ mutex' = "producer"
  /\ ppc' = "write"
  /\ UNCHANGED <<running, bufvars, workvars, ctlvars, audio_data, accepted,
                 nPushes, nextSample, last_fit, last_ret, subvars, since_flag>>

\* process_audio lines 97-100
process_audio_write ==
  /\ ppc = "write"
  /\ LET r == process_audio_locked(audio_buffer, buffer_pos, audio_data)
     IN /\ audio_buffer' = r.audio_buffer
        /\ buffer_pos' = r.buffer_pos
        /\ last_fit' = r.fit
        /\ accepted' = IF r.fit THEN accepted \o audio_data ELSE accepted
        /\ nextSample' = IF r.fit /\ ~silent(audio_data)
                            THEN nextSample + Len(audio_data) ELSE nextSample
  /\ ppc' = "unlock"
  /\ UNCHANGED <<running, mutex, workvars, ctlvars, audio_data, nPushes,
                 last_ret, subvars, since_flag>>

\* process_audio line 101: self.mutex.unlock(); the function ends without a
\* return statement, so the caller receives None
process_audio_keeplock ==
  /\ ppc = "unlock"
  /\ ppc' = "idle"
  /\ audio_data' = <<>>
  /\ last_ret' = "None"
  /\ UNCHANGED <<running, bufvars, mutex, workvars, ctlvars, accepted,
                 nPushes, nextSample, last_fit, subvars, since_flag>>
process_audio_unlock ==
  /\ ppc = "unlock"
  /\ mutex' = "free"
  /\ ppc' = "idle"
  /\ audio_data' = <<>>
  /\ last_ret' = "None"
  /\ UNCHANGED <<running, bufvars, workvars, ctlvars, accepted,
                 nPushes, nextSample, last_fit, subvars, since_flag>>

\* --------------------------------------------------------------- worker
\* run line 66: while self.running
run_while ==
  /\ wpc = "while"
  /\ wpc' = IF running THEN "lock" ELSE "none"
  /\ nloops' = IF running THEN nloops ELSE nloops - 1
  /\ UNCHANGED <<running, bufvars, mutex, chunk, current_pos, published, popped,
                 nErrors, histvars, wlocals, pending, sleep_left, prodvars,
                 cpc, last_op, subvars, since_flag>>

\* run line 67: self.mutex.lock()
run_lock_nowait ==
  /\ wpc = "lock"
  /\ mutex' = "worker"
  /\ wpc' = "pop"
  /\ UNCHANGED <<running, bufvars, chunk, current_pos, published, popped,
                 nErrors, histvars, wlocals, pending, sleep_left, prodvars,
                 ctlvars, subvars, since_flag>>
run_lock ==
  /\ wpc = "lock"
  /\ mutex = "free"
  /\ mutex' = "worker"
  /\ wpc' = "pop"
  /\ UNCHANGED <<running, bufvars, chunk, current_pos, published, popped,
                 nErrors, histvars, wlocals, pending, sleep_left, prodvars,
                 ctlvars, subvars, since_flag>>

\* run lines 68-71: the occupancy test and the copy-out
run_pop_stale ==
  /\ wpc = "pop"
  /\ LET r == pop_frame(audio_buffer, buffer_pos)
     IN /\ chunk' = IF r.taken THEN r.chunk ELSE chunk
        /\ audio_buffer' = r.audio_buffer
        /\ buffer_pos' = r.buffer_pos
        /\ popped' = IF r.taken THEN popped \o r.chunk ELSE popped
        /\ wpc' = "transform"
  /\ UNCHANGED <<running, mutex, current_pos, published, nErrors, histvars,
                 wlocals, pending, sleep_left, prodvars, ctlvars, subvars,
                 since_flag>>
run_pop ==
  /\ wpc = "pop"
  /\ LET r == pop_frame(audio_buffer, buffer_pos)
     IN IF r.taken
          THEN /\ chunk' = r.chunk
               /\ audio_buffer' = r.audio_buffer
               /\ buffer_pos' = r.buffer_pos
               /\ popped' = popped \o r.chunk
               /\ wpc' = "transform"
          ELSE /\ UNCHANGED <<chunk, audio_buffer, buffer_pos, popped>>
               /\ wpc' = "unlock"
  /\ UNCHANGED <<running, mutex, current_pos, published, nErrors, histvars,
                 wlocals, pending, sleep_left, prodvars, ctlvars, subvars,
                 since_flag>>

\* run lines 73-76: window, FFT, magnitude, power (locals only)
run_transform ==
  /\ wpc = "transform"
  /\ magnitude' = magnitude_of(chunk)
  /\ power' = power_of(magnitude_of(chunk))
  /\ wpc' = "record"
  /\ UNCHANGED <<running, bufvars, mutex, chunk, current_pos, published, popped,
                 nErrors, histvars, pending, sleep_left, prodvars, ctlvars,
                 subvars, since_flag>>

\* run lines 78-80: store into the histories and advance the rotating index
run_record_skip ==
  /\ wpc = "record"
  /\ current_pos' = advance(current_pos)
  /\ wpc' = "publish"
  /\ UNCHANGED <<running, bufvars, mutex, chunk, published, popped, nErrors,
                 histvars, wlocals, pending, sleep_left, prodvars, ctlvars,
                 subvars, since_flag>>
run_record ==
  /\ wpc = "record"
  /\ freq_history' = store_row(freq_history, current_pos, magnitude)
  /\ spec_history' = store_row(spec_history, current_pos, power)
  /\ current_pos' = advance(current_pos)
  /\ recorded' = recorded + 1
  /\ freq_writer' = [freq_writer EXCEPT ![current_pos + 1] = Len(popped) \div fft_size]
  /\ spec_writer' = [spec_writer EXCEPT ![current_pos + 1] = Len(popped) \div fft_size]
  /\ wpc' = "publish"
  /\ UNCHANGED <<running, bufvars, mutex, chunk, published, popped, nErrors,
                 wlocals, pending, sleep_left, prodvars, ctlvars, subvars,
                 since_flag>>

\* run lines 82-88: build the result and emit analysis_updated; the signal
\* is emitted from the worker thread to a receiver living in another
\* thread, so the call is queued for the receiver and emit returns
run_publish_twice ==
  /\ wpc = "publish"
  /\ published' = Append(published, chunk)
  /\ LET r == result_of(freq_history, spec_history, magnitude)
     IN pending' = Append(Append(pending, r), r)
  /\ since_flag' = IF cpc = "wait" THEN since_flag + 1 ELSE since_flag
  /\ wpc' = "unlock"
  /\ UNCHANGED <<running, bufvars, mutex, chunk, current_pos, popped, nErrors,
                 histvars, wlocals, sleep_left, prodvars, ctlvars, subvars>>
run_publish ==
  /\ wpc = "publish"
  /\ published' = Append(published, chunk)
  /\ pending' = Append(pending, result_of(freq_history, spec_history, magnitude))
  /\ since_flag' = IF cpc = "wait" THEN since_flag + 1 ELSE since_flag
  /\ wpc' = "unlock"
  /\ UNCHANGED <<running, bufvars, mutex, chunk, current_pos, popped, nErrors,
                 histvars, wlocals, sleep_left, prodvars, ctlvars, subvars>>

\* run line 89: self.mutex.unlock(), then line 90 begins the sleep
run_unlock ==
  /\ wpc = "unlock"
  /\ mutex' = "free"
  /\ wpc' = "sleep"
  /\ sleep_left' = SleepTicks
  /\ UNCHANGED <<running, bufvars, chunk, current_pos, published, popped,
                 nErrors, histvars, wlocals, pending, prodvars, ctlvars, subvars,
                 since_flag>>

\* run line 90: one tick of self.msleep(20) passes; nothing but the clock
\* ends the sleep
msleep_tick ==
  /\ wpc = "sleep"
  /\ sleep_left > 0
  /\ sleep_left' = sleep_left - 1
  /\ UNCHANGED <<running, bufvars, mutex, wpc, chunk, current_pos, published,
                 popped, nErrors, histvars, wlocals, pending, prodvars, ctlvars,
                 subvars, since_flag>>

\* run line 90: self.msleep(20) returns, back to the loop test
run_msleep_skiptest ==
  /\ wpc = "sleep"
  /\ sleep_left = 0
  /\ wpc' = "lock"
  /\ UNCHANGED <<running, bufvars, mutex, chunk, current_pos, published, popped,
                 nErrors, histvars, wlocals, pending, sleep_left, prodvars,
                 ctlvars, subvars, since_flag>>
run_msleep ==
  /\ wpc = "sleep"
  /\ sleep_left = 0
  /\ wpc' = "while"
  /\ UNCHANGED <<running, bufvars, mutex, chunk, current_pos, published, popped,
                 nErrors, histvars, wlocals, pending, sleep_left, prodvars,
                 ctlvars, subvars, since_flag>>

\* the statements of the locked region that an exception can come from
RaiseLines == (69..71) \cup (73..76) \cup (78..80) \cup (83..86) \cup {88}

\* the step of the worker a line belongs to
StepOf(line) ==
  IF line <= 71 THEN "pop"
  ELSE IF line <= 76 THEN "transform"
  ELSE IF line <= 80 THEN "record"
  ELSE "publish"

\* an exception raised by one of lines 69-88: the statements of the step
\* before that line have run, the line itself has no effect; run() has no
\* try/except, so the exception propagates out of run(), line 89 is not
\* executed and the thread ends
run_raise ==
  /\ nErrors < MaxErrors
  /\ \E line \in RaiseLines :
       /\ wpc = StepOf(line)
       /\ (line <= 71) => pop_frame(audio_buffer, buffer_pos).taken
       /\ chunk' = IF line \in 70..71
                     THEN pop_frame(audio_buffer, buffer_pos).chunk ELSE chunk
       /\ audio_buffer' = IF line = 71
                            THEN pop_frame(audio_buffer, buffer_pos).audio_buffer
                            ELSE audio_buffer
       /\ magnitude' = IF line = 76 THEN magnitude_of(chunk) ELSE magnitude
       /\ freq_history' = IF line \in 79..80
                            THEN store_row(freq_history, current_pos, magnitude)
                            ELSE freq_history
       /\ spec_history' = IF line = 80
                            THEN store_row(spec_history, current_pos, power)
                            ELSE spec_history
       /\ freq_writer' = IF line \in 79..80
                           THEN [freq_writer EXCEPT
                                   ![current_pos + 1] = Len(popped) \div fft_size]
                           ELSE freq_writer
       /\ spec_writer' = IF line = 80
                           THEN [spec_writer EXCEPT
                                   ![current_pos + 1] = Len(popped) \div fft_size]
                           ELSE spec_writer
  /\ nErrors' = nErrors + 1
  /\ wpc' = "none"
  /\ nloops' = nloops - 1
  /\ UNCHANGED <<running, buffer_pos, mutex, current_pos, published, popped,
                 recorded, power, pending, sleep_left, prodvars, cpc, last_op,
                 subvars, since_flag>>

\* ----------------------------------------------------------- subscriber
\* update_visualizer (lines 657-658) is entered with the oldest queued
\* result; queued calls are delivered in the order they were posted
update_visualizer_newest ==
  /\ spc = "idle"
  /\ pending # <<>>
  /\ delivered' = Append(delivered, pending[Len(pending)])
  /\ pending' = SubSeq(pending, 1, Len(pending) - 1)
  /\ spc' = "busy"
  /\ UNCHANGED <<running, bufvars, mutex, wpc, chunk, current_pos, published,
                 popped, nErrors, histvars, wlocals, sleep_left, prodvars,
                 ctlvars, since_flag>>
update_visualizer_begin ==
  /\ spc = "idle"
  /\ pending # <<>>
  /\ delivered' = Append(delivered, Head(pending))
  /\ pending' = Tail(pending)
  /\ spc' = "busy"
  /\ UNCHANGED <<running, bufvars, mutex, wpc, chunk, current_pos, published,
                 popped, nErrors, histvars, wlocals, sleep_left, prodvars,
                 ctlvars, since_flag>>

\* update_visualizer returns
update_visualizer_end ==
  /\ spc = "busy"
  /\ spc' = "idle"
  /\ UNCHANGED <<running, bufvars, mutex, workvars, prodvars, ctlvars,
                 delivered, since_flag>>

\* ------------------------------------------------------- specifications
run ==
  \/ run_while \/ run_lock \/ run_pop \/ run_transform \/ run_record
  \/ run_publish \/ run_unlock \/ msleep_tick \/ run_msleep

process_audio_body ==
  \/ process_audio_lock \/ process_audio_write \/ process_audio_unlock

Next ==
  \/ start
  \/ stop_analysis_flag
  \/ stop_analysis_wait
  \/ process_audio_call
  \/ process_audio_lock
  \/ process_audio_write
  \/ process_audio_unlock
  \/ run_while
  \/ run_lock
  \/ run_pop
  \/ run_transform
  \/ run_record
  \/ run_publish
  \/ run_unlock
  \/ msleep_tick
  \/ run_msleep

Spec == Init /\ [][Next]_vars

\* every started thread keeps being scheduled: the worker and a producer
\* inside process_audio take their next step, and wait() returns once the
\* thread has finished
FairSpec ==
  /\ Spec
  /\ WF_vars(run)
  /\ WF_vars(process_audio_body)
  /\ WF_vars(stop_analysis_wait)

\* a thread blocked in QMutex.lock() is woken by the unlock, and the holder
\* does not take the mutex again at once: the worker sleeps for a period
\* after line 89, process_audio returns to the event loop after line 101.
\* A waiter that finds the mutex free again and again therefore gets it.
FairLockSpec ==
  /\ FairSpec
  /\ SF_vars(process_audio_lock)
  /\ SF_vars(run_lock)

\* the same program when a statement of lines 69-88 may raise
NextRaise == Next \/ run_raise

SpecRaise == Init /\ [][NextRaise]_vars

\* the same program when the probe may also deliver a raw buffer with an
\* odd number of bytes
NextBadInput == Next \/ process_audio_raise

SpecBadInput == Init /\ [][NextBadInput]_vars

\* The application's wiring (lines 305-309): the AudioAnalyzer object and
\* the main window are created in the GUI thread and connected with the
\* default connection type, so process_audio, update_visualizer and the
\* handlers calling start()/stop_analysis() are all run by the GUI thread's
\* event loop, one at a time; only run() executes in the worker thread.
GuiIdle == ppc = "idle" /\ cpc = "idle" /\ spc = "idle"

app_start == GuiIdle /\ start

app_stop_analysis == GuiIdle /\ stop_analysis_flag

app_process_audio == GuiIdle /\ process_audio_call

app_update_visualizer == GuiIdle /\ update_visualizer_begin

NextApp ==
  \/ app_start
  \/ app_stop_analysis
  \/ stop_analysis_wait
  \/ app_process_audio
  \/ process_audio_lock
  \/ process_audio_write
  \/ process_audio_unlock
  \/ app_update_visualizer
  \/ update_visualizer_end
  \/ run_while
  \/ run_lock
  \/ run_pop
  \/ run_transform
  \/ run_record
  \/ run_publish
  \/ run_unlock
  \/ msleep_tick
  \/ run_msleep

SpecApp == Init /\ [][NextApp]_vars

\* the application when the probe may also deliver buffers of silence
app_process_audio_silent == GuiIdle /\ process_audio_call_silent

NextSilence == NextApp \/ app_process_audio_silent

SpecSilence == Init /\ [][NextSilence]_vars

\* ------------------------------------------------------------- helpers
IsPrefix(s, t) == Len(s) <= Len(t) /\ SubSeq(t, 1, Len(s)) = s

\* the worker thread exists and the loop flag is up
Running == wpc # "none" /\ running

\* ---------------------------------------------------------------- C1
\* C1 (as claimed): every start() made while no worker thread exists - also
\* one that follows a completed stop_analysis() - leaves the worker Running:
\* a thread at the loop test with the loop flag up.
C1_StartPutsWorkerRunning ==
  [][(wpc = "none" /\ wpc' # "none") => Running']_vars

\* ---------------------------------------------------------------- C2
\* C2: the write step of process_audio appends the whole chunk at the write
\* cursor and raises buffer_pos by len(chunk) exactly when the chunk fits in
\* Capacity - buffer_pos; otherwise buffer and buffer_pos are unchanged.
C2_PushAllOrNothing ==
  [][(ppc = "write" /\ ppc' = "unlock") =>
       LET n == Len(audio_data)
       IN IF n <= Capacity - buffer_pos
            THEN /\ buffer_pos' = buffer_pos + n
                 /\ SubSeq(audio_buffer', buffer_pos + 1, buffer_pos + n) = audio_data
                 /\ SubSeq(audio_buffer', 1, buffer_pos)
                      = SubSeq(audio_buffer, 1, buffer_pos)
                 /\ SubSeq(audio_buffer', buffer_pos + n + 1, Capacity)
                      = SubSeq(audio_buffer, buffer_pos + n + 1, Capacity)
            ELSE /\ audio_buffer' = audio_buffer
                 /\ buffer_pos' = buffer_pos]_vars

\* a chunk has just been dropped onto a buffer that holds accepted samples
C2_Witness ==
  ppc = "unlock" /\ ~last_fit /\ buffer_pos > 0 /\ Len(audio_data) <= Capacity

\* ---------------------------------------------------------------- C3
\* C3 (as claimed): a completed process_audio call has returned True when
\* its chunk was appended and False when it was dropped.
C3_PushReturnsBool ==
  (ppc = "idle" /\ nPushes > 0) =>
     last_ret = (IF last_fit THEN "True" ELSE "False")

\* ---------------------------------------------------------------- C4
\* C4: in every reachable state 0 <= buffer_pos <= capacity, and the
\* buffer's length stays 2 * fft_size.
C4_OccupancyBounded ==
  /\ buffer_pos \in 0..Len(audio_buffer)
  /\ Len(audio_buffer) = 2 * fft_size

\* the buffer is full again after a pop, and a further chunk was dropped
C4_Witness ==
  buffer_pos = Capacity /\ popped # <<>> /\ ppc = "unlock" /\ ~last_fit

\* ---------------------------------------------------------------- C5
\* C5: the pop step of a worker cycle takes a frame exactly when
\* buffer_pos >= fft_size; the frame is the oldest fft_size samples,
\* buffer_pos drops by fft_size and the remaining samples move to the front
\* in their order; otherwise nothing is taken and nothing changes.
C5_PopFrame ==
  [][(wpc = "pop" /\ wpc' # "pop") =>
       IF buffer_pos >= fft_size
         THEN /\ wpc' = "transform"
              /\ chunk' = SubSeq(audio_buffer, 1, fft_size)
              /\ Len(chunk') = fft_size
              /\ popped' = popped \o chunk'
              /\ buffer_pos' = buffer_pos - fft_size
              /\ SubSeq(audio_buffer', 1, buffer_pos')
                   = SubSeq(audio_buffer, fft_size + 1, buffer_pos)
         ELSE /\ wpc' = "unlock"
              /\ popped' = popped
              /\ audio_buffer' = audio_buffer
              /\ buffer_pos' = buffer_pos]_vars

\* a frame was popped and samples remain queued behind it
C5_Witness ==
  wpc = "transform" /\ buffer_pos > 0 /\ Len(chunk) = fft_size

\* ---------------------------------------------------------------- C6
\* C6: the concatenation of all popped frames is a prefix of the
\* concatenation of all accepted chunks.
C6_FifoPrefix == IsPrefix(popped, accepted)

\* two frames were popped, fed by chunks that do not align with frames
C6_Witness ==
  /\ Len(popped) >= 2 * fft_size
  /\ Len(accepted) > Len(popped)
  /\ Len(accepted) % fft_size # 0

\* ---------------------------------------------------------------- C7
\* C7: a stop_analysis() called while the worker thread exists eventually
\* returns, and when it has returned the thread has left run().
C7_StopReturns ==
  (cpc = "wait" /\ wpc # "none") ~> (cpc = "idle" /\ last_op = "stop" /\ wpc = "none")

\* stop_analysis is waiting on a worker that is mid-cycle with a frame queued
C7_Witness ==
  cpc = "wait" /\ wpc = "publish" /\ buffer_pos >= fft_size

\* ---------------------------------------------------------------- C8
\* C8: from the return of stop_analysis() until the next start(), no frame
\* is popped and no result is published.
C8_QuietAfterStop ==
  [][(last_op = "stop" /\ cpc = "idle") =>
       (popped' = popped /\ published' = published)]_vars

\* stop_analysis has returned, a frame is queued and a chunk has just been
\* written
C8_Witness ==
  /\ last_op = "stop" /\ cpc = "idle"
  /\ buffer_pos >= fft_size
  /\ ppc = "unlock" /\ last_fit /\ Len(audio_data) > 0

\* ---------------------------------------------------------------- C9
\* C9 (as claimed): the worker does not hold the mutex while it transforms,
\* records or publishes.
C9_LockOnlyForCopy ==
  wpc \in {"transform", "record", "publish"} => mutex # "worker"

\* --------------------------------------------------------------- C10
\* C10 (as claimed): when a line of the cycle raises, the worker thread
\* stays in run() and the mutex is released.
C10_ErrorCaught ==
  [][(nErrors' > nErrors) => (wpc' # "none" /\ mutex' # "worker")]_vars

\* ------------------------------------------------ helpers for C14-C20
\* number of frames popped so far
NPopped == Len(popped) \div fft_size

\* the k-th popped frame
FrameNo(k) == SubSeq(popped, (k - 1) * fft_size + 1, k * fft_size)

\* number of frames recorded into the histories so far: the first
\* NRecorded popped frames
NRecorded == recorded

\* the worker is between the copy-out of a frame and the emit of its result
CycleInProgress == wpc \in {"transform", "record", "publish"}

\* number of results emitted so far
NEmitted == Len(published)

\* every result emitted so far, in emission order
Emitted == delivered \o pending

\* --------------------------------------------------------------- C11
\* C11 (as claimed): every process_audio call, also one given a raw buffer
\* of odd byte length, returns normally - no exception reaches the caller -
\* and leaves the mutex released.
C11_PushTotal ==
  /\ last_ret # "ValueError"
  /\ (ppc = "idle" => mutex # "producer")

\* --------------------------------------------------------------- C12
\* C12: no thread waits forever: a process_audio call waiting for the mutex
\* eventually returns, the worker waiting for the mutex eventually gets it,
\* and a stop_analysis waiting in wait() eventually returns.
C12_NoDeadlock ==
  /\ (ppc = "lock") ~> (ppc = "idle")
  /\ (wpc = "lock") ~> (wpc = "pop")
  /\ (cpc = "wait") ~> (cpc = "idle")

\* during shutdown a process_audio call is blocked on the mutex the worker
\* holds
C12_Witness ==
  ppc = "lock" /\ mutex = "worker" /\ cpc = "wait" /\ wpc = "publish"

\* --------------------------------------------------------------- C13
\* C13 (as claimed): the emit never waits for the subscriber, and while the
\* subscriber is still busy with a result a process_audio call can begin.
C13_SubscriberNeverDelays ==
  /\ (wpc = "publish" => ENABLED run_publish)
  /\ ((spc = "busy" /\ ppc = "idle" /\ cpc = "idle" /\ nPushes < MaxPushes)
        => ENABLED app_process_audio)

\* --------------------------------------------------------------- C14
\* C14: one result is emitted per popped frame, and the k-th result the
\* subscriber receives was computed from the k-th popped frame: results
\* are neither reordered nor duplicated.
C14_OneResultPerFrameInOrder ==
  /\ Len(Emitted) = NEmitted
  /\ NEmitted = IF CycleInProgress THEN NPopped - 1 ELSE NPopped
  /\ \A k \in 1..Len(Emitted) :
       /\ Emitted[k].rms = rms_of(magnitude_of(FrameNo(k)))
       /\ Emitted[k].peak = peak_of(magnitude_of(FrameNo(k)))
       /\ published[k] = FrameNo(k)

\* the subscriber has received two results
C14_Witness == Len(delivered) >= 2 /\ spc = "busy"

\* --------------------------------------------------------------- C15
\* C15: when the buffer holds exactly fft_size samples, the pop yields a
\* frame equal, element for element, to the pushed int16 samples divided by
\* 32768, and leaves buffer_pos at 0.
C15_RoundTrip ==
  [][(wpc = "pop" /\ wpc' = "transform" /\ buffer_pos = fft_size) =>
       /\ buffer_pos' = 0
       /\ Len(chunk') = fft_size
       /\ \A i \in 1..fft_size :
            /\ chunk'[i][2] > 0
            /\ chunk'[i][1] * 32768
                 = SampleOf(nextSample - fft_size + i - 1) * chunk'[i][2]]_vars

\* the only process_audio call so far pushed exactly fft_size samples onto
\* the empty buffer, and the worker has popped them
C15_Witness ==
  /\ wpc = "transform" /\ nPushes = 1 /\ ppc = "idle"
  /\ Len(accepted) = fft_size /\ Len(popped) = fft_size /\ buffer_pos = 0

\* --------------------------------------------------------------- C16
\* C16: once the last history_size recorded frames were all silent, every
\* slot of spec_history holds the floor in every bin, and so does the
\* spectrogram of the result emitted for the last of them.
LastFramesSilent ==
  /\ NRecorded >= history_size
  /\ \A k \in (NRecorded - history_size + 1)..NRecorded : silent(FrameNo(k))

C16_SilenceFloor ==
  LastFramesSilent =>
    /\ \A j \in 1..history_size : \A b \in 1..NBins : spec_history[j][b] = Floor
    /\ (wpc # "publish" =>
          \A b \in 1..NBins : Emitted[NEmitted].spectrogram[b] = Floor)

\* a loud frame was recorded first, then history_size silent ones, and the
\* result of the last one has been emitted
C16_Witness ==
  /\ LastFramesSilent
  /\ NRecorded > history_size
  /\ ~silent(FrameNo(1))
  /\ wpc = "unlock"

\* --------------------------------------------------------------- C17
\* C17: between the lowering of the flag by stop_analysis and the return of
\* stop_analysis at most one result is emitted.
C17_AtMostOneAfterFlag == since_flag <= 1

\* one result was emitted after the flag was lowered, and a frame is still
\* queued
C17_Witness ==
  cpc = "wait" /\ since_flag = 1 /\ buffer_pos >= fft_size /\ wpc = "sleep"

\* --------------------------------------------------------------- C18
\* C18 (as claimed): once the flag is lowered the worker spends no further
\* tick of its period asleep.
C18_SleepInterruptible ==
  [][~(wpc = "sleep" /\ ~running /\ wpc' = "sleep" /\ sleep_left' < sleep_left)]_vars

\* --------------------------------------------------------------- C19
\* C19: a cycle that finds buffer_pos < fft_size emits nothing and leaves
\* buffer, buffer_pos, both histories and the rotating index unchanged; the
\* worker then unlocks, sleeps and returns to the loop test, and goes on
\* to the next cycle if the flag is still up.
C19_Underrun ==
  [][/\ (wpc = "pop" /\ buffer_pos < fft_size /\ wpc' # wpc) =>
          /\ wpc' = "unlock"
          /\ UNCHANGED <<audio_buffer, buffer_pos, freq_history, spec_history,
                         current_pos, published, pending, popped>>
     /\ (wpc = "unlock" /\ wpc' # wpc) =>
          /\ wpc' = "sleep"
          /\ UNCHANGED <<audio_buffer, buffer_pos, freq_history, spec_history,
                         current_pos, published, pending, popped>>
     /\ (wpc = "sleep" /\ wpc' # wpc) =>
          /\ wpc' = "while"
          /\ UNCHANGED <<audio_buffer, buffer_pos, freq_history, spec_history,
                         current_pos, published, pending, popped>>
     /\ (wpc = "while" /\ running /\ wpc' # wpc) => wpc' = "lock"]_vars

\* an underrun cycle is at its unlock with samples in the buffer: nothing
\* was ever emitted
C19_Witness ==
  wpc = "unlock" /\ buffer_pos > 0 /\ popped = <<>> /\ pending = <<>>

\* --------------------------------------------------------------- C20
\* the row (1-based) that the k-th record writes: current_pos starts at 0
\* and line 80 advances it once per record
SlotOf(k) == ((k - 1) % history_size) + 1

\* the recorded frames whose rows still hold what their record stored:
\* no later execution of line 78 or 79 has written there
RecentFrames ==
  {k \in 1..NRecorded :
     freq_writer[SlotOf(k)] = k /\ spec_writer[SlotOf(k)] = k}

\* C20: after n recorded frames the rotating index is n mod history_size,
\* the histories have history_size slots, the frames still held are exactly
\* the min(n, history_size) most recently recorded ones, frame k in slot
\* ((k-1) mod history_size), and every other slot still holds its initial
\* zeros.
C20_RotatingHistory ==
  /\ current_pos = NRecorded % history_size
  /\ current_pos \in 0..(history_size - 1)
  /\ Len(freq_history) = history_size
  /\ Len(spec_history) = history_size
  /\ RecentFrames = {k \in 1..NRecorded : k > NRecorded - history_size}
  /\ \A k \in RecentFrames :
       /\ freq_history[SlotOf(k)] = head(magnitude_of(FrameNo(k)))
       /\ spec_history[SlotOf(k)] = head(power_of(magnitude_of(FrameNo(k))))
  /\ \A j \in 1..history_size :
       (\A k \in RecentFrames : SlotOf(k) # j) =>
          /\ freq_history[j] = [b \in 1..NBins |-> SZero]
          /\ spec_history[j] = [b \in 1..NBins |-> SZero]

\* more frames than slots were recorded: the oldest slot was overwritten
C20_Witness ==
  NRecorded > history_size /\ wpc = "publish"

\* ------------------------------------------------ helpers for C21-C22
\* the rows recorded for the f-th popped frame
SnapMag(f) == head(magnitude_of(FrameNo(f)))
SnapPow(f) == head(power_of(magnitude_of(FrameNo(f))))

\* the frame whose snapshot sits in slot j when the k-th result is built:
\* 0 when the slot was never written
SlotFrame(k, j) ==
  LET S == {f \in 1..k : f > k - history_size /\ SlotOf(f) = j}
  IN IF S = {} THEN 0 ELSE CHOOSE f \in S : TRUE

\* --------------------------------------------------------------- C21
\* C21: every emitted spectrum and spectrogram bin is the mean (sum over
\* the entries divided by their number) of a column with one entry per
\* history slot, history_size in all: the snapshot of the frame recorded
\* there, or the initial zero for a slot never written.
C21_MeanOverAllSlots ==
  \A k \in 1..Len(Emitted) : \A b \in 1..NBins :
    LET m == Emitted[k].spectrum[b]
        p == Emitted[k].spectrogram[b]
    IN /\ m.kind = "mean" /\ Len(m.val) = history_size
       /\ p.kind = "mean" /\ Len(p.val) = history_size
       /\ \A j \in 1..history_size :
            IF SlotFrame(k, j) = 0
              THEN m.val[j] = SZero /\ p.val[j] = SZero
              ELSE /\ m.val[j] = SnapMag(SlotFrame(k, j))[b]
                   /\ p.val[j] = SnapPow(SlotFrame(k, j))[b]

\* the first result was emitted while a slot still held its zeros, and
\* the zero is an entry of the averaged column
C21_Witness ==
  /\ NEmitted = 1 /\ NEmitted < history_size /\ wpc = "sleep"
  /\ Emitted[1].spectrum[1].val[history_size] = SZero

\* --------------------------------------------------------------- C22
\* C22: a cycle goes pop, transform, record, publish, unlock in that order,
\* and the result emitted by the publish step has the snapshot of this
\* cycle's frame in its averaged columns and the rms and peak of that frame.
C22_CycleOrder ==
  [][/\ (wpc = "pop" /\ wpc' # wpc) => wpc' \in {"transform", "unlock"}
     /\ (wpc = "transform" /\ wpc' # wpc) => wpc' = "record"
     /\ (wpc = "record" /\ wpc' # wpc) => wpc' = "publish"
     /\ (wpc = "publish" /\ wpc' # wpc) =>
          /\ wpc' = "unlock"
          /\ Len(pending') = Len(pending) + 1
          /\ LET r == pending'[Len(pending')]
             IN /\ r.rms = rms_of(magnitude_of(FrameNo(NPopped)))
                /\ r.peak = peak_of(magnitude_of(FrameNo(NPopped)))
                /\ \A b \in 1..NBins :
                     /\ r.spectrum[b].kind = "mean"
                     /\ r.spectrum[b].val[SlotOf(NPopped)] = SnapMag(NPopped)[b]
                     /\ r.spectrogram[b].kind = "mean"
                     /\ r.spectrogram[b].val[SlotOf(NPopped)] = SnapPow(NPopped)[b]]_vars

\* the second cycle with a frame has emitted its result
C22_Witness ==
  /\ wpc = "unlock" /\ NPopped = 2 /\ Len(pending) = 2
  /\ pending[2].spectrum[1].val[SlotOf(2)] = SnapMag(2)[1]

\* --------------------------------------------------------------- C23
\* process_audio is between its lock and its unlock
InPush == ppc \in {"write", "unlock"}

\* run() is between its lock and its unlock
InPop == wpc \in {"pop", "transform", "record", "publish", "unlock"}

\* C23: the buffer and buffer_pos change only in a step of the thread that
\* holds the mutex, and process_audio and run() are never both between
\* their lock and unlock.
C23_BufferUnderLock ==
  [][/\ ~(InPush /\ InPop)
     /\ ~(InPush' /\ InPop')
     /\ (audio_buffer' # audio_buffer \/ buffer_pos' # buffer_pos) =>
          \/ (mutex = "producer" /\ ppc = "write" /\ ~InPop)
          \/ (mutex = "worker" /\ wpc = "pop" /\ ~InPush)]_vars

\* the worker waits at its lock while process_audio is about to write a
\* chunk
C23_Witness ==
  wpc = "lock" /\ ppc = "write" /\ mutex = "producer" /\ Len(audio_data) > 0

\* --------------------------------------------------------------- C24
\* C24: at most one thread executes run() at any time, whatever sequence
\* of start() and stop_analysis() calls is made.
C24_SingleLoop ==
  /\ nloops <= 1
  /\ (nloops = 1) = (wpc # "none")

\* start() was called while run() was executing, and the loop goes on
C24_Witness ==
  last_op = "start again" /\ nloops = 1 /\ wpc = "transform"

\* --------------------------------------------------------------- C25
\* C25: the samples accepted so far are exactly those popped as frames
\* plus those still in the buffer, and outside a cycle in progress one
\* result was emitted per popped frame.
C25_SampleConservation ==
  /\ Len(accepted) = fft_size * NPopped + buffer_pos
  /\ Len(popped) = fft_size * NPopped
  /\ (wpc \notin {"transform", "record", "publish"} =>
        Len(published) = NPopped)

\* a frame was popped and its result emitted, with samples left over
C25_Witness ==
  /\ NPopped >= 1 /\ buffer_pos > 0 /\ buffer_pos < fft_size
  /\ wpc = "sleep" /\ Len(published) = NPopped

\* --------------------------------------------------------------- C26
\* C26: a stop_analysis call made while no thread is in run() can always
\* return (wait() does not block), leaves no thread in run(), and leaves
\* the buffer, buffer_pos, the histories and the rotating index unchanged.
C26_StopIdempotent ==
  [][/\ (cpc = "wait" /\ wpc = "none") => ENABLED stop_analysis_wait
     /\ (cpc # cpc' /\ wpc = "none") =>
          /\ wpc' = "none"
          /\ nloops' = 0
          /\ UNCHANGED <<audio_buffer, buffer_pos, freq_history, spec_history,
                         current_pos>>]_vars

\* stop_analysis returned, was called again with no thread in run(), and
\* is at its wait(); samples are in the buffer
C26_Witness ==
  cpc = "wait" /\ last_op = "stop" /\ wpc = "none" /\ ~running /\ buffer_pos > 0

====
